---- MODULE Spec2Model ----
(***************************************************************************)
(* Model of the otelzap logging facade: a zap logger teeing into a stdout  *)
(* core and an OTLP core (SimpleOTLPCore), with context-derived fields.    *)
(*                                                                         *)
(* Strings that the code inspects character by character (level names)    *)
(* are sequences of one-character strings.  Errors are wrap chains: a      *)
(* sequence of message prefixes, outermost first; Nil is the empty chain.  *)
(***************************************************************************)
EXTENDS Integers, Sequences, FiniteSets, TLC

VARIABLES
    loggers,      \* every *Logger constructed so far, by handle (index)
    providers,    \* every otelLogSdk.LoggerProvider constructed so far
    exited,       \* TRUE once os.Exit has run
    origin,       \* history: how each Logger was made and the fields given to it
    call,         \* the API call being made: its inputs and observable effects;
                  \* NoCall between calls
    pc,           \* position of the pure-function harnesses
    levelStr,     \* parseLevel harness: the argument
    parsed,       \* parseLevel harness: the result
    ctxIn,        \* fieldsFromContext harness: the context
    extractorsIn, \* fieldsFromContext harness: config.FieldExtractors
    ctxFields     \* fieldsFromContext harness: the result

vars == <<loggers, providers, exited, origin, call, pc, levelStr, parsed,
          ctxIn, extractorsIn, ctxFields>>

(***************************************************************************)
(* Bounds                                                                  *)
(***************************************************************************)
MaxLen == 7          \* longest level string fed to parseLevel
MaxExtractors == 2   \* longest config.FieldExtractors list
MaxLoggers == 2      \* Logger handles constructed in one run

(***************************************************************************)
(* zapcore.Level                                                           *)
(***************************************************************************)
DebugLevel == -1
InfoLevel == 0
WarnLevel == 1
ErrorLevel == 2
DPanicLevel == 3
PanicLevel == 4
FatalLevel == 5

Nil == <<>>

(***************************************************************************)
(* strings.ToLower over the letters                                        *)
(***************************************************************************)
UpperChars == <<"A","B","C","D","E","F","G","H","I","J","K","L","M",
                "N","O","P","Q","R","S","T","U","V","W","X","Y","Z">>
LowerChars == <<"a","b","c","d","e","f","g","h","i","j","k","l","m",
                "n","o","p","q","r","s","t","u","v","w","x","y","z">>

ToLowerChar(c) ==
    IF \E i \in 1..26 : UpperChars[i] = c
    THEN LowerChars[CHOOSE i \in 1..26 : UpperChars[i] = c]
    ELSE c

ToLower(s) == [i \in 1..Len(s) |-> ToLowerChar(s[i])]

Str_debug == <<"d","e","b","u","g">>
Str_info == <<"i","n","f","o">>
Str_warn == <<"w","a","r","n">>
Str_warning == <<"w","a","r","n","i","n","g">>
Str_error == <<"e","r","r","o","r">>
Str_fatal == <<"f","a","t","a","l">>

(***************************************************************************)
(* parseLevel: the result is the pair (level, err)                         *)
(***************************************************************************)
parseLevelCaseSensitive(s) ==
    CASE s = Str_debug -> [level |-> DebugLevel, err |-> Nil]
      [] s = Str_info -> [level |-> InfoLevel, err |-> Nil]
      [] s \in {Str_warn, Str_warning} -> [level |-> WarnLevel, err |-> Nil]
      [] s = Str_error -> [level |-> ErrorLevel, err |-> Nil]
      [] s = Str_fatal -> [level |-> FatalLevel, err |-> Nil]
      [] OTHER -> [level |-> InfoLevel, err |-> <<"unknown level">>]

parseLevel(s) ==
    LET lower == ToLower(s) IN
    CASE lower = Str_debug -> [level |-> DebugLevel, err |-> Nil]
      [] lower = Str_info -> [level |-> InfoLevel, err |-> Nil]
      [] lower \in {Str_warn, Str_warning} -> [level |-> WarnLevel, err |-> Nil]
      [] lower = Str_error -> [level |-> ErrorLevel, err |-> Nil]
      [] lower = Str_fatal -> [level |-> FatalLevel, err |-> Nil]
      [] OTHER -> [level |-> InfoLevel, err |-> <<"unknown level">>]

parseLevelDefault(s) == parseLevel(s).level

(***************************************************************************)
(* context.Context, zap.Field and the configured field extractors          *)
(***************************************************************************)
traceIDKey == "trace_id"
userIDKey == "user_id"

\* What ctx.Value(key) can hold: nothing, a non-string, or a string.
NoValue == [type |-> "nil", v |-> ""]
IntValue == [type |-> "int", v |-> "42"]
StringValue(s) == [type |-> "string", v |-> s]

CtxValues == {NoValue, IntValue, StringValue(""), StringValue("12345"),
              StringValue("user1")}
Contexts == [{traceIDKey, userIDKey} -> CtxValues]

Background == [k \in {traceIDKey, userIDKey} |-> NoValue]
WithValue(ctx, key, s) == [ctx EXCEPT ![key] = StringValue(s)]

\* v, ok := ctx.Value(key).(string)
AssertString(val) ==
    [s |-> IF val.type = "string" THEN val.v ELSE "", ok |-> val.type = "string"]

String(key, val) == [key |-> key, val |-> val]

\* The extractor functions a caller can register with WithFieldExtractor.
ExtractorNames == {"none", "service", "tenant"}
ApplyExtractor(fn, ctx) ==
    CASE fn = "none" -> <<>>
      [] fn = "service" -> <<String("service", "api")>>
      [] fn = "tenant" -> <<String("tenant", "t1"), String("region", "eu")>>

SeqsUpTo(S, n) == UNION {[1..k -> S] : k \in 0..n}
ExtractorLists == SeqsUpTo(ExtractorNames, MaxExtractors)

RECURSIVE AppendExtractors(_, _, _)
AppendExtractors(fields, fns, ctx) ==
    IF fns = <<>> THEN fields
    ELSE AppendExtractors(fields \o ApplyExtractor(Head(fns), ctx), Tail(fns), ctx)

fieldsFromContextKeepEmpty(l, ctx) ==
    LET trace == AssertString(ctx[traceIDKey])
        user == AssertString(ctx[userIDKey])
        f0 == <<>>
        f1 == IF trace.ok THEN Append(f0, String(traceIDKey, trace.s)) ELSE f0
        f2 == IF user.ok THEN Append(f1, String(userIDKey, user.s)) ELSE f1
    IN AppendExtractors(f2, l.config.FieldExtractors, ctx)

fieldsFromContext(l, ctx) ==
    LET trace == AssertString(ctx[traceIDKey])
        user == AssertString(ctx[userIDKey])
        f0 == <<>>
        f1 == IF trace.ok /\ trace.s # ""
              THEN Append(f0, String(traceIDKey, trace.s)) ELSE f0
        f2 == IF user.ok /\ user.s # ""
              THEN Append(f1, String(userIDKey, user.s)) ELSE f1
    IN AppendExtractors(f2, l.config.FieldExtractors, ctx)

(***************************************************************************)
(* Config and its defaults (NewLogger), and the zero Config of the no-op   *)
(* loggers                                                                 *)
(***************************************************************************)
DefaultShutdownTimeout == 2000   \* 2 * time.Second, in milliseconds
DefaultEmitTimeout == 500        \* 500 * time.Millisecond

DefaultConfig ==
    [AsJSON |-> TRUE, EnableOTLP |-> FALSE, EnableStdout |-> TRUE,
     Level |-> Str_info, ShutdownTimeout |-> DefaultShutdownTimeout,
     FieldExtractors |-> <<>>]

ZeroConfig ==
    [AsJSON |-> FALSE, EnableOTLP |-> FALSE, EnableStdout |-> FALSE,
     Level |-> <<>>, ShutdownTimeout |-> 0, FieldExtractors |-> <<>>]

(***************************************************************************)
(* Cores.  A zap logger's core is the list given to zapcore.NewTee: the    *)
(* empty list is the no-op core, a one-element list behaves as its element.*)
(* A provider handle is an index into providers; 0 is the nil handle.      *)
(***************************************************************************)
createStdoutCore(asJSON, level) ==
    [kind |-> "stdout", asJSON |-> asJSON, level |-> level, fields |-> <<>>]

NewSimpleOTLPCore(otlpLogger, processor, level, emitTimeout) ==
    [kind |-> "otlp", otlpLogger |-> otlpLogger, processor |-> processor,
     level |-> level,
     emitTimeout |-> IF emitTimeout = 0 THEN DefaultEmitTimeout ELSE emitTimeout]

\* zapcore.Level.Enabled of the stdout core's LevelEnabler
ioCore_Enabled(c, level) == level >= c.level

SimpleOTLPCore_EnabledAbove(c, level) == level > c.level

SimpleOTLPCore_Enabled(c, level) == level >= c.level

SimpleOTLPCore_With(c, fields) ==
    [kind |-> "otlp", otlpLogger |-> c.otlpLogger, processor |-> c.processor,
     level |-> c.level, emitTimeout |-> c.emitTimeout]

\* ioCore.With clones the encoder and adds the fields to the clone
ioCore_With(c, fields) == [c EXCEPT !.fields = c.fields \o fields]

Core_Enabled(c, level) ==
    IF c.kind = "otlp" THEN SimpleOTLPCore_Enabled(c, level)
    ELSE ioCore_Enabled(c, level)

Core_With(c, fields) ==
    IF c.kind = "otlp" THEN SimpleOTLPCore_With(c, fields)
    ELSE ioCore_With(c, fields)

\* Check appends the core to the CheckedEntry's cores when the level is enabled
SimpleOTLPCore_Check(c, entry, ce) ==
    IF SimpleOTLPCore_Enabled(c, entry.Level) THEN Append(ce, c) ELSE ce

ioCore_Check(c, entry, ce) ==
    IF ioCore_Enabled(c, entry.Level) THEN Append(ce, c) ELSE ce

Core_Check(c, entry, ce) ==
    IF c.kind = "otlp" THEN SimpleOTLPCore_Check(c, entry, ce)
    ELSE ioCore_Check(c, entry, ce)

RECURSIVE Tee_Check(_, _, _)
Tee_Check(cores, entry, ce) ==
    IF cores = <<>> THEN ce
    ELSE Tee_Check(Tail(cores), entry, Core_Check(Head(cores), entry, ce))

Tee_Enabled(cores, level) == \E i \in 1..Len(cores) : Core_Enabled(cores[i], level)

Tee_With(cores, fields) == [i \in 1..Len(cores) |-> Core_With(cores[i], fields)]

(***************************************************************************)
(* SimpleOTLPCore.Write                                                    *)
(***************************************************************************)
mapZapToOtelSeverity(level) ==
    CASE level = DebugLevel -> "DEBUG"
      [] level = InfoLevel -> "INFO"
      [] level = WarnLevel -> "WARN"
      [] level = ErrorLevel -> "ERROR"
      [] level \in {DPanicLevel, PanicLevel, FatalLevel} -> "FATAL"
      [] OTHER -> "INFO"

makeBaseRecord(entry, sev) ==
    [severity |-> sev, body |-> entry.Message, attrs |-> {}]

\* zapcore.MapObjectEncoder: a later field with the same key replaces an earlier
RECURSIVE MapObjectEncoder(_, _)
MapObjectEncoder(m, fields) ==
    IF fields = <<>> THEN m
    ELSE LET f == Head(fields) IN
         MapObjectEncoder([k \in DOMAIN m \cup {f.key} |->
                              IF k = f.key THEN f.val ELSE m[k]],
                          Tail(fields))

\* The attributes come out in map iteration order: a set.  Field values are
\* strings (zap.String), which the type switch passes through unchanged.
encodeFieldsToAttrs(fields) ==
    IF Len(fields) = 0 THEN {}
    ELSE LET enc == MapObjectEncoder(<<>>, fields) IN
         {String(k, enc[k]) : k \in DOMAIN enc}

\* Emit returns nothing: the only error is the nil client
emitWithTimeout(c, record) ==
    IF c.otlpLogger = 0 THEN <<"otlp logger is nil">> ELSE Nil

\* emitted: what the remote client was handed, with how the emission went
\* (outcome is the collector's and the network's doing, invisible to the code)
SimpleOTLPCore_Write(c, entry, fields, outcome) ==
    LET severity == mapZapToOtelSeverity(entry.Level)
        r0 == makeBaseRecord(entry, severity)
        r1 == IF Len(fields) > 0
              THEN [r0 EXCEPT !.attrs = @ \cup encodeFieldsToAttrs(fields)] ELSE r0
        r2 == IF entry.Caller # ""
              THEN [r1 EXCEPT !.attrs = @ \cup {String("caller", entry.Caller)}]
              ELSE r1
        record == IF entry.Stack # ""
                  THEN [r2 EXCEPT !.attrs = @ \cup {String("stacktrace", entry.Stack)}]
                  ELSE r2
        err == emitWithTimeout(c, record)
    IN [err |-> Nil,
        steps |-> <<"otlp.Write">>,
        stdout |-> <<>>,
        remote |-> IF c.otlpLogger = 0 THEN <<>>
                   ELSE <<[record |-> record, outcome |-> outcome]>>,
        stderr |-> IF err # Nil
                   THEN <<[notice |-> "failed to emit OTLP log", err |-> err,
                           message |-> entry.Message]>>
                   ELSE <<>>]

\* ioCore.Write: encode with the core's own fields first, write the line,
\* and sync the writer when the level is above error
ioCore_Write(c, entry, fields) ==
    [err |-> Nil,
     steps |-> IF entry.Level > ErrorLevel THEN <<"stdout.Write", "stdout.Sync">>
               ELSE <<"stdout.Write">>,
     stdout |-> <<[level |-> entry.Level, message |-> entry.Message,
                   caller |-> entry.Caller, fields |-> c.fields \o fields]>>,
     remote |-> <<>>,
     stderr |-> <<>>]

Core_Write(c, entry, fields, outcome) ==
    IF c.kind = "otlp" THEN SimpleOTLPCore_Write(c, entry, fields, outcome)
    ELSE ioCore_Write(c, entry, fields)

NoEffect == [err |-> Nil, steps |-> <<>>, stdout |-> <<>>, remote |-> <<>>,
             stderr |-> <<>>]

Then(a, b) ==
    [err |-> a.err \o b.err, steps |-> a.steps \o b.steps,
     stdout |-> a.stdout \o b.stdout, remote |-> a.remote \o b.remote,
     stderr |-> a.stderr \o b.stderr]

(***************************************************************************)
(* zap.Logger over a core list: check, CheckedEntry.Write, Sync, With      *)
(***************************************************************************)
Entry(level, msg) ==
    [Level |-> level, Message |-> msg, Caller |-> "main.go:42", Stack |-> ""]

RECURSIVE WriteCores(_, _, _, _)
WriteCores(ce, entry, fields, outcome) ==
    IF ce = <<>> THEN NoEffect
    ELSE Then(Core_Write(Head(ce), entry, fields, outcome),
              WriteCores(Tail(ce), entry, fields, outcome))

\* Logger.check then CheckedEntry.Write: below DPanic a disabled level is
\* dropped before Check; at Fatal the entry gets the WriteThenFatal hook whether
\* or not any core accepted it, and the hook ends the process after the writes.
\* A core's write error goes to the logger's ErrorOutput, not to the caller.
zapLog(cores, level, msg, fields, outcome) ==
    IF level < DPanicLevel /\ ~Tee_Enabled(cores, level) THEN NoEffect
    ELSE LET entry == Entry(level, msg)
             ce == Tee_Check(cores, entry, <<>>)
             w == WriteCores(ce, entry, fields, outcome)
             reported == IF w.err # Nil
                         THEN [w EXCEPT !.stderr = Append(@, [notice |-> "write error",
                                   err |-> w.err, message |-> msg]),
                                        !.err = Nil]
                         ELSE w
         IN IF level = FatalLevel
            THEN [reported EXCEPT !.steps = Append(@, "os.Exit")]
            ELSE reported

\* noSyncWriter.Sync
noSyncWriter_Sync == Nil

ioCore_Sync(c) ==
    [NoEffect EXCEPT !.steps = <<"stdout.Sync">>, !.err = noSyncWriter_Sync]

SimpleOTLPCore_Sync(c, flushOk) ==
    IF c.processor = 0 THEN NoEffect
    ELSE [NoEffect EXCEPT
            !.steps = <<"otlp.ForceFlush">>,
            !.err = IF flushOk THEN Nil
                    ELSE <<"failed to flush OTLP processor", "flush error">>]

Core_Sync(c, flushOk) ==
    IF c.kind = "otlp" THEN SimpleOTLPCore_Sync(c, flushOk) ELSE ioCore_Sync(c)

RECURSIVE Tee_Sync(_, _)
Tee_Sync(cores, flushOk) ==
    IF cores = <<>> THEN NoEffect
    ELSE Then(Core_Sync(Head(cores), flushOk), Tee_Sync(Tail(cores), flushOk))

(***************************************************************************)
(* Logger: construction                                                    *)
(***************************************************************************)
\* createOTLPCore; exporterOk is whether the exporter and resource could be
\* made, handle the provider (and its logger and processor) made if so
createOTLPCore(cfg, exporterOk, handle) ==
    IF exporterOk
    THEN [core |-> <<NewSimpleOTLPCore(handle, handle, parseLevelDefault(cfg.Level),
                                       cfg.ShutdownTimeout)>>,
          provider |-> handle, err |-> Nil]
    ELSE [core |-> <<>>, provider |-> 0,
          err |-> <<"failed to create OTLP exporter", "exporter error">>]

buildCoresFailOnOTLPError(cfg, level, exporterOk, handle) ==
    LET c1 == IF cfg.EnableStdout THEN <<createStdoutCore(cfg.AsJSON, level)>>
              ELSE <<>>
        otlp == createOTLPCore(cfg, exporterOk, handle)
    IN IF cfg.EnableOTLP /\ otlp.err # Nil
       THEN [cores |-> <<>>, otelProvider |-> 0, err |-> otlp.err, stderr |-> <<>>]
       ELSE IF cfg.EnableOTLP
       THEN [cores |-> c1 \o otlp.core, otelProvider |-> otlp.provider,
             err |-> Nil, stderr |-> <<>>]
       ELSE IF Len(c1) = 0
       THEN [cores |-> <<>>, otelProvider |-> 0, err |-> <<"no cores configured">>,
             stderr |-> <<>>]
       ELSE [cores |-> c1, otelProvider |-> 0, err |-> Nil, stderr |-> <<>>]

buildCores(cfg, level, exporterOk, handle) ==
    LET c1 == IF cfg.EnableStdout THEN <<createStdoutCore(cfg.AsJSON, level)>>
              ELSE <<>>
        otlp == createOTLPCore(cfg, exporterOk, handle)
        failed == cfg.EnableOTLP /\ otlp.err # Nil
        cores == IF cfg.EnableOTLP /\ otlp.err = Nil THEN c1 \o otlp.core ELSE c1
        otelProvider == IF cfg.EnableOTLP /\ otlp.err = Nil THEN otlp.provider ELSE 0
        stderr == IF failed
                  THEN <<[notice |-> "failed to create OTLP core", err |-> otlp.err,
                          message |-> ""]>>
                  ELSE <<>>
    IN IF Len(cores) = 0
       THEN [cores |-> <<>>, otelProvider |-> 0, err |-> <<"no cores configured">>,
             stderr |-> stderr]
       ELSE [cores |-> cores, otelProvider |-> otelProvider, err |-> Nil,
             stderr |-> stderr]

\* NewLogger on the merged configuration: the logger, or the error
NewLoggerResult(cfg, exporterOk, handle) ==
    LET lv == parseLevel(cfg.Level) IN
    IF lv.err # Nil
    THEN [ok |-> FALSE, err |-> <<"invalid log level">> \o lv.err, stderr |-> <<>>,
          otelProvider |-> 0, logger |-> <<>>]
    ELSE LET b == buildCores(cfg, lv.level, exporterOk, handle) IN
         IF b.err # Nil
         THEN [ok |-> FALSE, err |-> <<"failed to build cores">> \o b.err,
               stderr |-> b.stderr, otelProvider |-> 0, logger |-> <<>>]
         ELSE [ok |-> TRUE, err |-> Nil, stderr |-> b.stderr,
               otelProvider |-> b.otelProvider,
               logger |-> [zapLogger |-> b.cores,
                           otelProvider |-> b.otelProvider, config |-> cfg]]

\* zap.NewNop() and zap.New(zapcore.NewNopCore()): no core, no provider, zero Config
NopLogger == [zapLogger |-> <<>>, otelProvider |-> 0, config |-> ZeroConfig]

(***************************************************************************)
(* Logger: With, Close                                                     *)
(***************************************************************************)
\* the handles after l.With(fields): the new Logger is appended
Logger_WithInPlace(ls, l, fields) ==
    LET shared == [ls EXCEPT ![l].zapLogger = Tee_With(@, fields)] IN
    Append(shared, shared[l])

Logger_With(ls, l, fields) ==
    Append(ls, [zapLogger |-> Tee_With(ls[l].zapLogger, fields),
                otelProvider |-> ls[l].otelProvider,
                config |-> ls[l].config])

Logger_CloseStopOnSyncError(lg, flushOk, shutdownOk) ==
    LET sync == Tee_Sync(lg.zapLogger, flushOk) IN
    IF sync.err # Nil
    THEN [steps |-> sync.steps,
          err |-> <<"close errors">> \o <<"failed to sync zap">> \o sync.err]
    ELSE IF lg.otelProvider # 0
    THEN [steps |-> Append(sync.steps, "provider.Shutdown"),
          err |-> IF shutdownOk THEN Nil
                  ELSE <<"close errors", "failed to shutdown OTLP", "shutdown error">>]
    ELSE [steps |-> sync.steps, err |-> Nil]

\* Close: the steps performed, in order, and the error returned
Logger_Close(lg, flushOk, shutdownOk) ==
    LET sync == Tee_Sync(lg.zapLogger, flushOk)
        errs1 == IF sync.err # Nil THEN <<"failed to sync zap">> \o sync.err ELSE <<>>
        shut == lg.otelProvider # 0
        errs2 == IF shut /\ ~shutdownOk
                 THEN errs1 \o <<"failed to shutdown OTLP", "shutdown error">>
                 ELSE errs1
    IN [steps |-> IF shut THEN Append(sync.steps, "provider.Shutdown")
                  ELSE sync.steps,
        err |-> IF Len(errs2) > 0 THEN <<"close errors">> \o errs2 ELSE Nil]

\* a SetLevel that stores the parsed level in every core
Logger_SetLevelStoring(ls, l, str) ==
    LET lv == parseLevel(str) IN
    IF lv.err # Nil
    THEN [loggers |-> ls, err |-> <<"invalid log level">> \o lv.err]
    ELSE [loggers |-> [ls EXCEPT ![l].zapLogger =
                          [i \in 1..Len(@) |-> [@[i] EXCEPT !.level = lv.level]]],
          err |-> Nil]

\* SetLevel: the handles after the call and the error returned.  The parsed
\* level is only asked of Core().Enabled, whose answer is dropped.
Logger_SetLevel(ls, l, str) ==
    LET lv == parseLevel(str) IN
    IF lv.err # Nil
    THEN [loggers |-> ls, err |-> <<"invalid log level">> \o lv.err]
    ELSE LET dropped == Tee_Enabled(ls[l].zapLogger, lv.level) IN
         [loggers |-> ls, err |-> Nil]

(***************************************************************************)
(* Inputs of the runs                                                      *)
(***************************************************************************)
LevelChoices == {Str_info, <<"l","o","u","d">>}
ExtractorChoices == {<<"service">>}
RequestContext ==
    WithValue(WithValue(Background, traceIDKey, "12345"), userIDKey, "user1")
\* a logging call's context and call-site fields
CallInputs == {[ctx |-> Background, fields |-> <<>>],
               [ctx |-> RequestContext, fields |-> <<String("key", "value")>>]}
WithFields == {<<String("component", "db")>>}
SetLevelChoices == {Str_debug, <<"E","r","r","o","r">>, <<"l","o","u","d">>}

\* How an emission handed to a provider's logger can go: a stopped provider's
\* batch processor drops the record
EmitOutcomes(handle) ==
    IF handle = 0 THEN {"none"}
    ELSE IF providers[handle].stopped THEN {"dropped"}
    ELSE {"delivered", "timeout", "transport error"}

\* the provider whose logger a core list emits to (0 when it has no OTLP core)
RemoteOf(cores) ==
    IF \E i \in 1..Len(cores) : cores[i].kind = "otlp"
    THEN cores[CHOOSE i \in 1..Len(cores) : cores[i].kind = "otlp"].otlpLogger
    ELSE 0

NoCall ==
    [op |-> "none", logger |-> 0, level |-> InfoLevel, ctx |-> Background,
     fields |-> <<>>, flushOk |-> TRUE, shutdownOk |-> TRUE, steps |-> <<>>,
     stdout |-> <<>>, remote |-> <<>>, stderr |-> <<>>, err |-> Nil,
     cfg |-> DefaultConfig, exporterOk |-> TRUE, levelArg |-> <<>>]

Harness == <<pc, levelStr, parsed, ctxIn, extractorsIn, ctxFields>>

\* the client makes one call at a time, and none once the process has exited
Running == pc = "run" /\ ~exited /\ call = NoCall

(***************************************************************************)
(* Actions of the facade                                                   *)
(***************************************************************************)
NewLogger(enableStdout, enableOTLP, level, extractors, exporterOk) ==
    /\ Running
    /\ Len(loggers) < MaxLoggers
    /\ LET cfg == [DefaultConfig EXCEPT !.EnableStdout = enableStdout,
                                        !.EnableOTLP = enableOTLP,
                                        !.Level = level,
                                        !.FieldExtractors = extractors]
           r == NewLoggerResult(cfg, exporterOk, Len(providers) + 1)
       IN /\ loggers' = IF r.ok THEN Append(loggers, r.logger) ELSE loggers
          /\ origin' = IF r.ok
                       THEN Append(origin, [parent |-> 0, attached |-> <<>>])
                       ELSE origin
          /\ providers' = IF r.ok /\ r.otelProvider # 0
                          THEN Append(providers, [stopped |-> FALSE, shutdownBy |-> {}])
                          ELSE providers
          /\ call' = [NoCall EXCEPT !.op = "NewLogger",
                                    !.logger = IF r.ok THEN Len(loggers) + 1 ELSE 0,
                                    !.stderr = r.stderr, !.err = r.err,
                                    !.cfg = cfg, !.exporterOk = exporterOk]
    /\ UNCHANGED <<exited, Harness>>

NewNop(ctor) ==
    /\ Running
    /\ Len(loggers) < MaxLoggers
    /\ loggers' = Append(loggers, NopLogger)
    /\ origin' = Append(origin, [parent |-> 0, attached |-> <<>>])
    /\ call' = [NoCall EXCEPT !.op = ctor, !.logger = Len(loggers) + 1]
    /\ UNCHANGED <<providers, exited, Harness>>

NewNoopLogger == NewNop("NewNoopLogger")
NewNopLogger == NewNop("NewNopLogger")
NewBenchmarkLogger == NewNop("NewBenchmarkLogger")

Derive(ctor, l, fields) ==
    /\ Running
    /\ Len(loggers) < MaxLoggers
    /\ loggers' = Logger_With(loggers, l, fields)
    /\ origin' = Append(origin, [parent |-> l,
                                 attached |-> origin[l].attached \o fields])
    /\ call' = [NoCall EXCEPT !.op = ctor, !.logger = Len(loggers) + 1,
                              !.fields = fields]
    /\ UNCHANGED <<providers, exited, Harness>>

With(l, fields) == Derive("With", l, fields)

WithContext(l, ctx) == Derive("WithContext", l, fieldsFromContext(loggers[l], ctx))

Log(op, level, l, ctx, msg, fields, outcome) ==
    /\ Running
    /\ LET all == fieldsFromContext(loggers[l], ctx) \o fields
           w == zapLog(loggers[l].zapLogger, level, msg, all, outcome)
       IN /\ call' = [NoCall EXCEPT !.op = op, !.logger = l, !.level = level,
                                    !.ctx = ctx, !.fields = fields,
                                    !.steps = w.steps, !.stdout = w.stdout,
                                    !.remote = w.remote, !.stderr = w.stderr]
          /\ exited' = (\E i \in 1..Len(w.steps) : w.steps[i] = "os.Exit")
    /\ UNCHANGED <<loggers, providers, origin, Harness>>

Debug(l, ctx, msg, fields, outcome) ==
    Log("Debug", DebugLevel, l, ctx, msg, fields, outcome)
Info(l, ctx, msg, fields, outcome) ==
    Log("Info", InfoLevel, l, ctx, msg, fields, outcome)
Warn(l, ctx, msg, fields, outcome) ==
    Log("Warn", WarnLevel, l, ctx, msg, fields, outcome)
Error(l, ctx, msg, fields, outcome) ==
    Log("Error", ErrorLevel, l, ctx, msg, fields, outcome)
Fatal(l, ctx, msg, fields, outcome) ==
    Log("Fatal", FatalLevel, l, ctx, msg, fields, outcome)

Sync(l, flushOk) ==
    /\ Running
    /\ LET r == Tee_Sync(loggers[l].zapLogger, flushOk)
       IN call' = [NoCall EXCEPT !.op = "Sync", !.logger = l, !.flushOk = flushOk,
                                 !.steps = r.steps, !.err = r.err]
    /\ UNCHANGED <<loggers, providers, exited, origin, Harness>>

Close(l, flushOk, shutdownOk) ==
    /\ Running
    /\ LET r == Logger_Close(loggers[l], flushOk, shutdownOk)
           p == loggers[l].otelProvider
           shut == \E i \in 1..Len(r.steps) : r.steps[i] = "provider.Shutdown"
       IN /\ call' = [NoCall EXCEPT !.op = "Close", !.logger = l,
                                    !.flushOk = flushOk, !.shutdownOk = shutdownOk,
                                    !.steps = r.steps, !.err = r.err]
          /\ providers' = IF shut
                          THEN [providers EXCEPT ![p].stopped = TRUE,
                                                 ![p].shutdownBy = @ \cup {l}]
                          ELSE providers
    /\ UNCHANGED <<loggers, exited, origin, Harness>>

SetLevel(l, str) ==
    /\ Running
    /\ LET r == Logger_SetLevel(loggers, l, str)
       IN /\ loggers' = r.loggers
          /\ call' = [NoCall EXCEPT !.op = "SetLevel", !.logger = l,
                                    !.levelArg = str, !.err = r.err]
    /\ UNCHANGED <<providers, exited, origin, Harness>>

\* SimpleOTLPCore is exported: a caller can build one, also with a nil client,
\* and write to it directly
CoreWrite(otlpLogger, level, msg, fields, outcome) ==
    /\ Running
    /\ LET c == NewSimpleOTLPCore(otlpLogger, otlpLogger, InfoLevel, 0)
           w == SimpleOTLPCore_Write(c, Entry(level, msg), fields, outcome)
       IN call' = [NoCall EXCEPT !.op = "SimpleOTLPCore.Write", !.level = level,
                                 !.fields = fields, !.steps = w.steps,
                                 !.remote = w.remote, !.stderr = w.stderr,
                                 !.err = w.err]
    /\ UNCHANGED <<loggers, providers, exited, origin, Harness>>

\* the call returns to the client
Return ==
    /\ pc = "run"
    /\ ~exited
    /\ call # NoCall
    /\ call' = NoCall
    /\ UNCHANGED <<loggers, providers, exited, origin, Harness>>

Message == "Test message"

LogNext ==
    \E l \in 1..Len(loggers), in \in CallInputs :
      \E outcome \in EmitOutcomes(RemoteOf(loggers[l].zapLogger)) :
        \/ Debug(l, in.ctx, Message, in.fields, outcome)
        \/ Info(l, in.ctx, Message, in.fields, outcome)
        \/ Warn(l, in.ctx, Message, in.fields, outcome)
        \/ Error(l, in.ctx, Message, in.fields, outcome)
        \/ Fatal(l, in.ctx, Message, in.fields, outcome)

Next ==
    \/ \E enableStdout \in BOOLEAN, enableOTLP \in BOOLEAN, level \in LevelChoices,
          extractors \in ExtractorChoices, exporterOk \in BOOLEAN :
         NewLogger(enableStdout, enableOTLP, level, extractors, exporterOk)
    \/ NewNoopLogger
    \/ NewNopLogger
    \/ NewBenchmarkLogger
    \/ \E l \in 1..Len(loggers), fields \in WithFields : With(l, fields)
    \/ \E l \in 1..Len(loggers) : WithContext(l, RequestContext)
    \/ LogNext
    \/ \E l \in 1..Len(loggers), flushOk \in BOOLEAN : Sync(l, flushOk)
    \/ \E l \in 1..Len(loggers), str \in SetLevelChoices : SetLevel(l, str)
    \/ \E l \in 1..Len(loggers), flushOk \in BOOLEAN, shutdownOk \in BOOLEAN :
         Close(l, flushOk, shutdownOk)
    \/ \E otlpLogger \in 0..Len(providers), level \in {InfoLevel, ErrorLevel} :
         \E outcome \in EmitOutcomes(otlpLogger) :
           CoreWrite(otlpLogger, level, Message, <<String("key", "value")>>, outcome)
    \/ Return

HarnessIdle ==
    /\ levelStr = <<>>
    /\ parsed = [level |-> InfoLevel, err |-> Nil]
    /\ ctxIn = Background
    /\ extractorsIn = <<>>
    /\ ctxFields = <<>>

FacadeIdle ==
    /\ loggers = <<>>
    /\ providers = <<>>
    /\ exited = FALSE
    /\ origin = <<>>
    /\ call = NoCall

Init == FacadeIdle /\ HarnessIdle /\ pc = "run"

Spec == Init /\ [][Next]_vars

(***************************************************************************)
(* parseLevel on its own: every casing of the level names and of some      *)
(* strings that are not level names                                        *)
(***************************************************************************)
LevelNames == {Str_debug, Str_info, Str_warn, Str_warning, Str_error, Str_fatal}
OtherWords == {<<>>, <<"i","n","v","a","l","i","d">>, <<"w","a","r","n","i","n">>,
               <<"i","n","f","o","s">>, <<"p","a","n","i","c">>,
               <<" ","i","n","f","o">>, <<"i","n","f","0">>, <<"t","r","a","c","e">>,
               <<"w","a","r","n","i","n","g","s">>,
               <<"e","r","r","o","r","-","l","o","g">>}

ToUpperChar(c) ==
    IF \E i \in 1..26 : LowerChars[i] = c
    THEN UpperChars[CHOOSE i \in 1..26 : LowerChars[i] = c]
    ELSE c

Casings(w) ==
    {[i \in 1..Len(w) |-> IF i \in up THEN ToUpperChar(w[i]) ELSE w[i]] :
        up \in SUBSET (1..Len(w))}

LevelInputs ==
    UNION {Casings(w) : w \in {x \in LevelNames \cup OtherWords : Len(x) <= MaxLen}}

CallParseLevel ==
    /\ pc = "parseLevel"
    /\ parsed' = parseLevel(levelStr)
    /\ pc' = "parsed"
    /\ UNCHANGED <<loggers, providers, exited, origin, call, levelStr, ctxIn,
                   extractorsIn, ctxFields>>

InitParse ==
    /\ FacadeIdle
    /\ pc = "parseLevel"
    /\ levelStr \in LevelInputs
    /\ parsed = [level |-> InfoLevel, err |-> Nil]
    /\ ctxIn = Background
    /\ extractorsIn = <<>>
    /\ ctxFields = <<>>

SpecParse == InitParse /\ [][CallParseLevel]_vars

(***************************************************************************)
(* fieldsFromContext on its own: every context over CtxValues and every    *)
(* extractor list up to MaxExtractors                                      *)
(***************************************************************************)
CallFieldsFromContext ==
    /\ pc = "fieldsFromContext"
    /\ ctxFields' = fieldsFromContext(
                        [NopLogger EXCEPT !.config.FieldExtractors = extractorsIn],
                        ctxIn)
    /\ pc' = "extracted"
    /\ UNCHANGED <<loggers, providers, exited, origin, call, levelStr, parsed,
                   ctxIn, extractorsIn>>

InitCtx ==
    /\ FacadeIdle
    /\ pc = "fieldsFromContext"
    /\ ctxIn \in Contexts
    /\ extractorsIn \in ExtractorLists
    /\ ctxFields = <<>>
    /\ levelStr = <<>>
    /\ parsed = [level |-> InfoLevel, err |-> Nil]

SpecCtx == InitCtx /\ [][CallFieldsFromContext]_vars

(***************************************************************************)
(* Vocabulary of the properties                                            *)
(***************************************************************************)
Range(s) == {s[i] : i \in DOMAIN s}
LogOps == {"Debug", "Info", "Warn", "Error", "Fatal"}
IsWrite(step) == step \in {"stdout.Write", "otlp.Write"}
WriteStepOf(c) == IF c.kind = "otlp" THEN "otlp.Write" ELSE "stdout.Write"
\* i < j < k with steps a, b, c at these positions
InOrder(steps, a, b, c) ==
    \E i, j, k \in DOMAIN steps :
        i < j /\ j < k /\ steps[i] = a /\ steps[j] = b /\ steps[k] = c
IsNop(l) == loggers[l].zapLogger = <<>>
IsDerived(l) == origin[l].parent # 0

(***************************************************************************)
(* C10  parseLevel is total: a string that equals debug, info, warn,       *)
(* warning, error or fatal up to letter case gives that severity and no    *)
(* error (warn and warning both give warn, and the severities are ordered  *)
(* debug < info < warn < error < fatal); any other string gives info and   *)
(* an error.                                                               *)
(***************************************************************************)
EqualFold(a, b) ==
    /\ Len(a) = Len(b)
    /\ \A i \in 1..Len(a) :
          \/ a[i] = b[i]
          \/ \E k \in 1..26 : {a[i], b[i]} = {UpperChars[k], LowerChars[k]}

NamedLevel(n) ==
    CASE n = Str_debug -> DebugLevel
      [] n = Str_info -> InfoLevel
      [] n = Str_warn -> WarnLevel
      [] n = Str_warning -> WarnLevel
      [] n = Str_error -> ErrorLevel
      [] n = Str_fatal -> FatalLevel

C10_ParseLevelTotal ==
    pc = "parsed" =>
      /\ \A n \in LevelNames :
            EqualFold(levelStr, n) => parsed = [level |-> NamedLevel(n), err |-> Nil]
      /\ (\A n \in LevelNames : ~EqualFold(levelStr, n)) =>
            parsed.level = InfoLevel /\ parsed.err # Nil
      /\ NamedLevel(Str_debug) < NamedLevel(Str_info)
      /\ NamedLevel(Str_info) < NamedLevel(Str_warn)
      /\ NamedLevel(Str_warn) < NamedLevel(Str_error)
      /\ NamedLevel(Str_error) < NamedLevel(Str_fatal)

C10_Witness ==
    /\ pc = "parsed"
    /\ levelStr = <<"W","a","R","N","i","n","g">>
    /\ parsed = [level |-> WarnLevel, err |-> Nil]

(***************************************************************************)
(* C9  fieldsFromContext returns exactly: the trace-id field iff the       *)
(* context holds a non-empty string under the trace-id key, then the       *)
(* user-id field iff it holds a non-empty string under the user-id key,    *)
(* then each extractor's output in registration order; a missing or empty  *)
(* key shortens the list by exactly one and an empty extractor output      *)
(* adds nothing.                                                           *)
(***************************************************************************)
Present(key) == ctxIn[key].type = "string" /\ ctxIn[key].v # ""
Count(b) == IF b THEN 1 ELSE 0
OutputLen(j) == Len(ApplyExtractor(extractorsIn[j], ctxIn))

RECURSIVE OutputsBefore(_)
OutputsBefore(j) == IF j <= 1 THEN 0 ELSE OutputsBefore(j - 1) + OutputLen(j - 1)

C9_FieldsFromContextExact ==
    pc = "extracted" =>
      LET wellKnown == Count(Present(traceIDKey)) + Count(Present(userIDKey))
          n == Len(extractorsIn)
      IN /\ Len(ctxFields) = wellKnown + OutputsBefore(n + 1)
         /\ Present(traceIDKey) =>
               ctxFields[1] = String(traceIDKey, ctxIn[traceIDKey].v)
         /\ Present(userIDKey) =>
               ctxFields[Count(Present(traceIDKey)) + 1]
                   = String(userIDKey, ctxIn[userIDKey].v)
         /\ \A j \in 1..n :
               SubSeq(ctxFields, wellKnown + OutputsBefore(j) + 1,
                      wellKnown + OutputsBefore(j + 1))
                   = ApplyExtractor(extractorsIn[j], ctxIn)

C9_Witness ==
    /\ pc = "extracted"
    /\ ctxIn[traceIDKey] = StringValue("")
    /\ ctxIn[userIDKey] = StringValue("user1")
    /\ extractorsIn = <<"none", "tenant">>
    /\ ctxFields = <<String(userIDKey, "user1"), String("tenant", "t1"),
                     String("region", "eu")>>

(***************************************************************************)
(* C1  For every record emitted through a Logger built by NewLogger and    *)
(* every sink in its core list (console first, remote second), the sink's  *)
(* Write is called iff the record's level is at least the sink's minimum;  *)
(* the sinks are written in list order, a written record is on the console *)
(* output, and a call below the minimum is written to no sink.             *)
(***************************************************************************)
AtOrAbove(c) == call.level >= c.level

C1_WriteIffEnabledInOrder ==
    (call.op \in LogOps /\ ~IsNop(call.logger)) =>
      LET cores == loggers[call.logger].zapLogger
          enabled == SelectSeq(cores, AtOrAbove)
      IN /\ \A i \in 1..Len(cores) :
                (WriteStepOf(cores[i]) \in Range(call.steps)) <=> AtOrAbove(cores[i])
         /\ SelectSeq(call.steps, IsWrite)
                = [i \in 1..Len(enabled) |-> WriteStepOf(enabled[i])]
         /\ \A i, j \in 1..Len(cores) :
                (cores[i].kind = "stdout" /\ cores[j].kind = "otlp") => i < j
         /\ \A i \in 1..Len(cores) :
                cores[i].kind = "stdout" =>
                    (Len(call.stdout) = 1 <=> AtOrAbove(cores[i]))
         /\ (\A i \in 1..Len(cores) : ~AtOrAbove(cores[i])) =>
                call.stdout = <<>> /\ call.remote = <<>>

C1_Witness ==
    /\ call.op = "Info"
    /\ SelectSeq(call.steps, IsWrite) = <<"stdout.Write", "otlp.Write">>
    /\ Len(call.stdout) = 1
    /\ Len(call.remote) = 1

(***************************************************************************)
(* C2  SimpleOTLPCore.Write returns nil for every record and every state   *)
(* of the remote client, and when the emission times out or fails with a   *)
(* transport error exactly one fallback notice with the error and the      *)
(* original message is written to the error stream.                        *)
(***************************************************************************)
EmissionFailed ==
    \E i \in 1..Len(call.remote) :
        call.remote[i].outcome \in {"timeout", "transport error"}

FallbackNotices ==
    SelectSeq(call.stderr, LAMBDA n : n.notice = "failed to emit OTLP log")

C2_WriteNeverFailsAndFallsBack ==
    ("otlp.Write" \in Range(call.steps)) =>
      /\ call.err = Nil
      /\ EmissionFailed =>
            /\ Len(FallbackNotices) = 1
            /\ FallbackNotices[1].err # Nil
            /\ FallbackNotices[1].message = Message

(***************************************************************************)
(* C3  Close flushes the core first and then, if a remote provider was     *)
(* constructed, shuts the provider down, also when the flush failed; it    *)
(* returns an error iff a performed step failed, the error names every     *)
(* failed step, and with no provider and a successful flush it returns     *)
(* no error.                                                               *)
(***************************************************************************)
C3_CloseRunsBothStepsAndAggregates ==
    call.op = "Close" =>
      LET lg == loggers[call.logger]
          cores == lg.zapLogger
          n == Len(cores)
          flushes == \E i \in 1..n : cores[i].kind = "otlp" /\ cores[i].processor # 0
          flushFailed == flushes /\ ~call.flushOk
          shuts == lg.otelProvider # 0
          shutFailed == shuts /\ ~call.shutdownOk
      IN /\ Len(call.steps) = n + Count(shuts)
         /\ \A i \in 1..n :
               call.steps[i] = IF cores[i].kind = "otlp" THEN "otlp.ForceFlush"
                               ELSE "stdout.Sync"
         /\ shuts => call.steps[n + 1] = "provider.Shutdown"
         /\ shuts => providers[lg.otelProvider].stopped
         /\ (call.err # Nil) <=> (flushFailed \/ shutFailed)
         /\ flushFailed => "failed to sync zap" \in Range(call.err)
         /\ shutFailed => "failed to shutdown OTLP" \in Range(call.err)
         /\ (~shuts /\ ~flushFailed) => call.err = Nil

C3_Witness ==
    /\ call.op = "Close"
    /\ ~call.flushOk
    /\ ~call.shutdownOk
    /\ call.steps = <<"stdout.Sync", "otlp.ForceFlush", "provider.Shutdown">>
    /\ {"failed to sync zap", "failed to shutdown OTLP"} \subseteq Range(call.err)

(***************************************************************************)
(* C4  After d := l.With(fields), every record emitted through d carries   *)
(* all of the fields on every sink that receives it, the console sink and  *)
(* the remote bridge alike.                                                *)
(***************************************************************************)
C4_WithFieldsOnEverySink ==
    call.op \in LogOps =>
      LET attached == Range(origin[call.logger].attached)
      IN /\ \A i \in 1..Len(call.stdout) :
                attached \subseteq Range(call.stdout[i].fields)
         /\ \A i \in 1..Len(call.remote) :
                attached \subseteq call.remote[i].record.attrs

(***************************************************************************)
(* C5  With and WithContext leave the receiver unchanged: whatever Loggers *)
(* are derived from it and used, the fields attached to the records        *)
(* emitted through a Logger are the ones it was created with.              *)
(***************************************************************************)
C5_DerivingLeavesReceiverUnchanged ==
    /\ \A l \in 1..Len(loggers) :
          \A i \in 1..Len(loggers[l].zapLogger) :
              loggers[l].zapLogger[i].kind = "stdout" =>
                  loggers[l].zapLogger[i].fields = origin[l].attached
    /\ call.op \in LogOps =>
          \A i \in 1..Len(call.stdout) :
              call.stdout[i].fields
                  = origin[call.logger].attached
                      \o fieldsFromContext(loggers[call.logger], call.ctx)
                      \o call.fields

C5_Witness ==
    /\ call.op \in LogOps
    /\ ~IsDerived(call.logger)
    /\ Len(call.stdout) = 1
    /\ \E d \in 1..Len(loggers) :
          origin[d].parent = call.logger /\ origin[d].attached # <<>>

(***************************************************************************)
(* C6  A Logger derived by With or WithContext shares the root's provider  *)
(* but does not own it: Close on a derived Logger does not shut the        *)
(* provider down, so only the root shuts it down and the root still        *)
(* delivers to the remote sink after a derived Logger was closed.          *)
(***************************************************************************)
C6_OnlyRootShutsProviderDown ==
    /\ \A p \in 1..Len(providers) :
          \A l \in providers[p].shutdownBy : ~IsDerived(l)
    /\ \A d \in 1..Len(loggers) :
          IsDerived(d) => loggers[d].otelProvider = loggers[origin[d].parent].otelProvider
    /\ (call.op \in LogOps /\ ~IsDerived(call.logger)
          /\ call.logger \notin UNION {providers[p].shutdownBy : p \in 1..Len(providers)})
          => \A i \in 1..Len(call.remote) : call.remote[i].outcome # "dropped"

(***************************************************************************)
(* C7  Fatal emits the record, then flushes every sink that received it,   *)
(* the remote bridge's batching pipeline included, and only then ends the  *)
(* process.                                                                *)
(***************************************************************************)
C7_FatalFlushesBeforeExit ==
    (call.op = "Fatal" /\ "os.Exit" \in Range(call.steps)) =>
      /\ "stdout.Write" \in Range(call.steps) =>
            InOrder(call.steps, "stdout.Write", "stdout.Sync", "os.Exit")
      /\ "otlp.Write" \in Range(call.steps) =>
            InOrder(call.steps, "otlp.Write", "otlp.ForceFlush", "os.Exit")

(***************************************************************************)
(* C8  A no-op Logger takes Debug, Info, Warn, Error and Fatal, and Sync   *)
(* and Close, in any order without an error, without output and without    *)
(* ending the program.                                                     *)
(***************************************************************************)
C8_NopLoggerIsInert ==
    (call.op \in LogOps \cup {"Sync", "Close"} /\ IsNop(call.logger)) =>
      /\ call.err = Nil
      /\ call.stdout = <<>>
      /\ call.remote = <<>>
      /\ call.stderr = <<>>
      /\ "os.Exit" \notin Range(call.steps)
      /\ ~exited

(***************************************************************************)
(* C11  For a valid level, building the sink list fails iff the list would *)
(* be empty; a failure to construct the remote bridge is reported on the   *)
(* error stream and the remote sink is left out without failing            *)
(* construction, so with the console sink enabled construction succeeds    *)
(* whether or not the remote sink could be built, and the console sink     *)
(* precedes the remote sink when both are present.                         *)
(***************************************************************************)
CoreKinds(cores) == [i \in 1..Len(cores) |-> cores[i].kind]

C11_BuildCoresFailsIffEmpty ==
    (call.op = "NewLogger" /\ parseLevel(call.cfg.Level).err = Nil) =>
      LET console == call.cfg.EnableStdout
          remoteFailed == call.cfg.EnableOTLP /\ ~call.exporterOk
          remote == call.cfg.EnableOTLP /\ call.exporterOk
          notices == SelectSeq(call.stderr,
                               LAMBDA n : n.notice = "failed to create OTLP core")
      IN /\ (call.err # Nil) <=> (~console /\ ~remote)
         /\ call.err # Nil =>
               /\ call.logger = 0
               /\ "no cores configured" \in Range(call.err)
         /\ Len(notices) = Count(remoteFailed)
         /\ console => call.err = Nil
         /\ call.err = Nil =>
               /\ call.logger = Len(loggers)
               /\ CoreKinds(loggers[call.logger].zapLogger)
                     = (IF console THEN <<"stdout">> ELSE <<>>)
                         \o (IF remote THEN <<"otlp">> ELSE <<>>)
               /\ (loggers[call.logger].otelProvider # 0) <=> remote

C11_Witness ==
    /\ call.op = "NewLogger"
    /\ call.cfg.EnableStdout
    /\ call.cfg.EnableOTLP
    /\ ~call.exporterOk
    /\ call.err = Nil
    /\ Len(call.stderr) = 1
    /\ CoreKinds(loggers[call.logger].zapLogger) = <<"stdout">>

(***************************************************************************)
(* C12  SetLevel never changes a sink's stored minimum level: for every    *)
(* level string, each sink accepts the same severities after the call as   *)
(* before it; SetLevel returns an error exactly when the string is not a   *)
(* valid level, and nil otherwise.                                         *)
(***************************************************************************)
Severities == {DebugLevel, InfoLevel, WarnLevel, ErrorLevel, DPanicLevel,
               PanicLevel, FatalLevel}
Accepted(c) == {lv \in Severities : Core_Enabled(c, lv)}
AcceptedBySinks(ls) ==
    [l \in 1..Len(ls) |->
        [i \in 1..Len(ls[l].zapLogger) |-> Accepted(ls[l].zapLogger[i])]]

====
